---- MODULE Spec2Model ----
(***************************************************************************)
(* A model of src/black_scholes.py: the class BlackScholesModel, its       *)
(* constructor, _calculate_d1_d2, calculate_price and calculate_greeks.    *)
(*                                                                         *)
(* Floating-point values are records [k, v]:                               *)
(*   k = "fin"  a finite number, v its value in units of 1/Scale           *)
(*   k = "inf"  an infinity, v = 1 or -1                                   *)
(*   k = "nan"  not-a-number                                               *)
(*   k = "none" Python's None        k = "lib" a value the library returned*)
(* Python float division raises ZeroDivisionError on a zero divisor;       *)
(* numpy float64 arithmetic never raises and yields inf or nan instead.    *)
(* The constructor's arguments are finite numbers; signed zeros and        *)
(* overflow to infinity are outside the bounds modelled.                   *)
(***************************************************************************)
EXTENDS Integers, Sequences, FiniteSets, TLC

\* ------------------------------------------------------------- bounds
\* Fixed-point resolution: a finite float x is held as round(x * Scale).
Scale == 1000
\* S and K range over -1 .. MaxPrice
MaxPrice == 2
\* T ranges over -1 .. MaxTime (years)
MaxTime == 1
\* r ranges over -1 .. MaxRate
MaxRate == 1
\* sigma ranges over -1 .. MaxVol
MaxVol == 1

\* ------------------------------------------------------------- floats
Fin(n) == [k |-> "fin", v |-> n]
NaN == [k |-> "nan", v |-> 0]
PInf == [k |-> "inf", v |-> 1]
NInf == [k |-> "inf", v |-> -1]
None == [k |-> "none", v |-> 0]
LibValue == [k |-> "lib", v |-> 0]

IsFin(a) == a.k = "fin"
IsInf(a) == a.k = "inf"
IsNaN(a) == a.k = "nan"
Sign(n) == IF n > 0 THEN 1 ELSE IF n < 0 THEN -1 ELSE 0
Abs(n) == IF n < 0 THEN -n ELSE n
\* the sign of a non-nan float
FSign(a) == IF IsInf(a) THEN a.v ELSE Sign(a.v)
Inf(s) == IF s > 0 THEN PInf ELSE NInf

\* n / d rounded to the nearest integer, halves away from zero (d > 0)
RDiv(n, d) == IF n >= 0 THEN (2 * n + d) \div (2 * d) ELSE -((2 * (-n) + d) \div (2 * d))

FNeg(a) == IF IsNaN(a) THEN NaN ELSE [k |-> a.k, v |-> -a.v]

FAdd(a, b) ==
  IF IsNaN(a) \/ IsNaN(b) THEN NaN
  ELSE IF IsInf(a) /\ IsInf(b) THEN (IF a.v = b.v THEN a ELSE NaN)
  ELSE IF IsInf(a) THEN a
  ELSE IF IsInf(b) THEN b
  ELSE Fin(a.v + b.v)

FSub(a, b) == FAdd(a, FNeg(b))

FMul(a, b) ==
  IF IsNaN(a) \/ IsNaN(b) THEN NaN
  ELSE IF IsInf(a) \/ IsInf(b)
       THEN (IF FSign(a) * FSign(b) = 0 THEN NaN ELSE Inf(FSign(a) * FSign(b)))
  ELSE Fin(RDiv(a.v * b.v, Scale))

\* numpy float64 true division: x/0 is +-inf, 0/0 is nan, never raises
FDiv(a, b) ==
  IF IsNaN(a) \/ IsNaN(b) THEN NaN
  ELSE IF IsInf(a) /\ IsInf(b) THEN NaN
  ELSE IF IsInf(a) THEN Inf(a.v * (IF FSign(b) < 0 THEN -1 ELSE 1))
  ELSE IF IsInf(b) THEN Fin(0)
  ELSE IF b.v = 0 THEN (IF a.v = 0 THEN NaN ELSE Inf(Sign(a.v)))
  ELSE Fin(Sign(b.v) * RDiv(a.v * Scale, Abs(b.v)))

\* floor of the square root of n >= 0 (Newton iteration from g)
RECURSIVE ISqrt(_, _)
ISqrt(n, g) ==
  IF n = 0 THEN 0
  ELSE LET h == (g + n \div g) \div 2 IN IF h >= g THEN g ELSE ISqrt(n, h)

\* np.sqrt
FSqrt(a) ==
  IF IsNaN(a) THEN NaN
  ELSE IF IsInf(a) THEN (IF a.v > 0 THEN PInf ELSE NaN)
  ELSE IF a.v < 0 THEN NaN
  ELSE Fin(ISqrt(a.v * Scale, a.v * Scale))

\* sum of z^j / j over the odd j >= k down to the resolution, where p = z^k
RECURSIVE AtanhSeries(_, _, _)
AtanhSeries(p, z, k) ==
  IF RDiv(p, k) = 0 THEN 0
  ELSE RDiv(p, k) + AtanhSeries(RDiv(RDiv(p * z, Scale) * z, Scale), z, k + 2)

\* ln x for x > 0: 2 * atanh((x - 1) / (x + 1))
LogFix(x) ==
  LET z == RDiv((x - Scale) * Scale, x + Scale) IN 2 * AtanhSeries(z, z, 1)

\* np.log: log(0) is -inf and log of a negative number is nan, with a warning only
FLog(a) ==
  IF IsNaN(a) THEN NaN
  ELSE IF IsInf(a) THEN (IF a.v > 0 THEN PInf ELSE NaN)
  ELSE IF a.v < 0 THEN NaN
  ELSE IF a.v = 0 THEN NInf
  ELSE Fin(LogFix(a.v))

\* sum of f^j / j! over j >= k, where term = f^(k-1) / (k-1)!
RECURSIVE ExpTaylor(_, _, _)
ExpTaylor(term, f, k) ==
  IF term = 0 THEN 0 ELSE term + ExpTaylor(RDiv(term * f, k * Scale), f, k + 1)

\* e and 1/e
E1 == ExpTaylor(Scale, Scale, 1)
E1Inv == RDiv(Scale * Scale, E1)

\* acc * m^n
RECURSIVE MulPow(_, _, _)
MulPow(acc, m, n) ==
  IF n = 0 \/ acc = 0 THEN acc ELSE MulPow(RDiv(acc * m, Scale), m, n - 1)

\* e^x for a finite x
ExpFix(x) ==
  LET y == Abs(x)
      frac == ExpTaylor(Scale, y % Scale, 1)
  IN IF x >= 0 THEN MulPow(frac, E1, y \div Scale)
     ELSE MulPow(RDiv(Scale * Scale, frac), E1Inv, y \div Scale)

\* np.exp
FExp(a) ==
  IF IsNaN(a) THEN NaN
  ELSE IF IsInf(a) THEN (IF a.v > 0 THEN PInf ELSE Fin(0))
  ELSE Fin(ExpFix(a.v))

\* 1 / sqrt(2 pi)
InvSqrt2Pi == RDiv(39894 * Scale, 100000)

\* the standard normal density at a finite x
PdfFix(x) == RDiv(InvSqrt2Pi * ExpFix(-RDiv(RDiv(x * x, Scale), 2)), Scale)

\* scipy.stats.norm.pdf(x, 0, 1)
NormPdf(a) ==
  IF IsNaN(a) THEN NaN
  ELSE IF IsInf(a) THEN Fin(0)
  ELSE Fin(PdfFix(a.v))

\* c / 1000 in units of 1/Scale
Milli(c) == RDiv(c * Scale, 1000)

\* the standard normal distribution function at x >= 0:
\* 1 - pdf(x) (b1 t + ... + b5 t^5), t = 1 / (1 + p x), kept within [1/2, 1]
CdfUpper(x) ==
  LET t == RDiv(Scale * Scale, Scale + RDiv(Milli(232) * x, Scale))
      h5 == Milli(1330)
      h4 == Milli(-1821) + RDiv(h5 * t, Scale)
      h3 == Milli(1781) + RDiv(h4 * t, Scale)
      h2 == Milli(-357) + RDiv(h3 * t, Scale)
      h1 == Milli(319) + RDiv(h2 * t, Scale)
      tail == RDiv(PdfFix(x) * RDiv(h1 * t, Scale), Scale)
      lo == Scale \div 2
  IN IF tail < 0 THEN Scale ELSE IF Scale - tail < lo THEN lo ELSE Scale - tail

CdfFix(x) == IF x >= 0 THEN CdfUpper(x) ELSE Scale - CdfUpper(-x)

\* scipy.stats.norm.cdf(x, 0, 1)
NormCdf(a) ==
  IF IsNaN(a) THEN NaN
  ELSE IF IsInf(a) THEN (IF a.v > 0 THEN Fin(Scale) ELSE Fin(0))
  ELSE Fin(CdfFix(a.v))

\* ------------------------------------------------------------- the class
\* the float of a numeric literal n
Num(n) == Fin(n * Scale)

\* Python float true division: ZeroDivisionError on a zero divisor
Exc == [k |-> "exc", v |-> 0]
PyTrueDiv(a, b) == IF b.v = 0 THEN Exc ELSE FDiv(a, b)

\* the option_type arguments: 'c', 'p' and a string that is neither
OptionTypes == {"c", "p", "x"}

\* the py_vollib functions the class calls
LibFuncs == {"bs", "delta", "gamma", "theta", "vega", "rho"}
GreekNames == {"Delta", "Gamma", "Theta", "Vega", "Rho"}

\* The library is not part of the repository: which of its functions raise
\* for the model's parameters is unknown, but fixed (its functions are
\* pure).  An oracle is the set of functions that raise: none, one, or all.
LibOracles == {{}} \cup {{f} : f \in LibFuncs} \cup {LibFuncs}

\* the floats lo, lo + 1, ..., hi
Whole(lo, hi) == {n * Scale : n \in lo .. hi}

\* the constructor's arguments (S, K, T, r, sigma), each in units of 1/Scale
Inputs ==
  [S : Whole(-1, MaxPrice), K : Whole(-1, MaxPrice), T : Whole(-1, MaxTime),
   r : Whole(-1, MaxRate), sigma : Whole(-1, MaxVol)]

NoSelf == [S |-> 0, K |-> 0, T |-> 0, r |-> 0, sigma |-> 0]

Blank == [k |-> "blank", v |-> 0]
Pair(m, l) == [Manual |-> m, Py_Vollib |-> l]
NonePair == Pair(None, None)
BlankPair == Pair(Blank, Blank)
BlankGreeks == [g \in GreekNames |-> BlankPair]

\* what a call produced: op is the method ("none" before any call), ot its
\* option_type, raised the exception that left the method ("" if it
\* returned), d the (d1, d2) tuple, price and greeks the returned dicts,
\* libCalled the library functions called, printed whether the error
\* message of calculate_price was printed
NoRet ==
  [op |-> "none", ot |-> "", raised |-> "", d |-> <<Blank, Blank>>,
   price |-> BlankPair, greeks |-> BlankGreeks, libCalled |-> {},
   printed |-> FALSE]

VARIABLES
  args,   \* the values the caller passes to the constructor
  pc,     \* "new": not yet constructed; "constructed"; "rejected": ValueError
  self,   \* the attributes of the instance
  lib,    \* the library functions that raise for these parameters
  ret,    \* the outcome of the latest method call
  first,  \* the outcome of the first method call on the instance
  mixed   \* a call of another method or option type followed the first call

vars == <<args, pc, self, lib, ret, first, mixed>>

\* the check with T < 0 written for T <= 0
InvalidParametersStrict(T, sigma) == T < 0 \/ sigma < 0

\* line 26: the constructor's check
InvalidParameters(T, sigma) == T <= 0 \/ sigma < 0

Init ==
  /\ args \in Inputs
  /\ pc = "new"
  /\ self = NoSelf
  /\ lib \in LibOracles
  /\ ret = NoRet
  /\ first = NoRet
  /\ mixed = FALSE

\* BlackScholesModel(S, K, T, r, sigma)
__init__ ==
  /\ pc = "new"
  /\ IF InvalidParameters(args.T, args.sigma)
     THEN pc' = "rejected" /\ self' = self
     ELSE /\ pc' = "constructed"
          /\ self' = [S |-> args.S, K |-> args.K, T |-> args.T, r |-> args.r,
                      sigma |-> args.sigma]
  /\ UNCHANGED <<args, lib, ret, first, mixed>>

\* _calculate_d1_d2: [raised, d1, d2]
D1D2(m) ==
  LET ratio == PyTrueDiv(Fin(m.S), Fin(m.K))
      sqrtT == FSqrt(Fin(m.T))
      half == PyTrueDiv(FMul(Fin(m.sigma), Fin(m.sigma)), Num(2))
      d1 == FDiv(FAdd(FLog(ratio), FMul(FAdd(Fin(m.r), half), Fin(m.T))),
                 FMul(Fin(m.sigma), sqrtT))
      d2 == FSub(d1, FMul(Fin(m.sigma), sqrtT))
  IN IF ratio.k = "exc"
     THEN [raised |-> "ZeroDivisionError", d1 |-> Blank, d2 |-> Blank]
     ELSE [raised |-> "", d1 |-> d1, d2 |-> d2]

\* np.exp(-self.r * self.T)
DiscountFactor(m) == FExp(FMul(FNeg(Fin(m.r)), Fin(m.T)))

\* lines 58-61: the manual price, or Exc for the ValueError of line 63
ManualPrice(m, d1, d2, ot) ==
  IF ot = "c"
  THEN FSub(FMul(Fin(m.S), NormCdf(d1)),
            FMul(FMul(Fin(m.K), DiscountFactor(m)), NormCdf(d2)))
  ELSE IF ot = "p"
  THEN FSub(FMul(FMul(Fin(m.K), DiscountFactor(m)), NormCdf(FNeg(d2))),
            FMul(Fin(m.S), NormCdf(FNeg(d1))))
  ELSE Exc

\* calculate_price(option_type)
PriceResult(m, oracle, ot) ==
  LET dd == D1D2(m)
      price == ManualPrice(m, dd.d1, dd.d2, ot)
      called == IF price.k = "exc" THEN {} ELSE {"bs"}
      failed == price.k = "exc" \/ "bs" \in oracle
  IN IF dd.raised # ""
     THEN [NoRet EXCEPT !.op = "price", !.ot = ot, !.raised = dd.raised]
     ELSE [NoRet EXCEPT !.op = "price", !.ot = ot,
             !.price = IF failed THEN NonePair ELSE Pair(price, LibValue),
             !.libCalled = called, !.printed = failed]

\* the factors that scale the reported Theta, Vega and Rho
DaysPerYear == 365
Hundredth == Fin(RDiv(Scale, 100))

\* line 87 / line 89
delta_val(d1, ot) ==
  IF ot = "c" THEN NormCdf(d1) ELSE FNeg(NormCdf(FNeg(d1)))

\* line 96
gamma_val(m, d1) ==
  FDiv(NormPdf(d1), FMul(FMul(Fin(m.S), Fin(m.sigma)), FSqrt(Fin(m.T))))

\* -S pdf(d1) sigma / (2 sqrt(T)), the first term of lines 104 and 106
ThetaDecay(m, d1) ==
  FDiv(FMul(FMul(FNeg(Fin(m.S)), NormPdf(d1)), Fin(m.sigma)),
       FMul(Num(2), FSqrt(Fin(m.T))))

\* r K exp(-rT) cdf(x), the second term of lines 104 and 106
ThetaCarry(m, x) ==
  FMul(FMul(FMul(Fin(m.r), Fin(m.K)), DiscountFactor(m)), NormCdf(x))

\* lines 103-107: theta_val / 365
theta_reported(m, d1, d2, ot) ==
  LET theta_val ==
        IF ot = "c" THEN FSub(ThetaDecay(m, d1), ThetaCarry(m, d2))
        ELSE FAdd(ThetaDecay(m, d1), ThetaCarry(m, FNeg(d2)))
  IN FDiv(theta_val, Num(DaysPerYear))

\* lines 113-114: vega_val * 0.01
vega_reported(m, d1) ==
  FMul(FMul(FMul(Fin(m.S), NormPdf(d1)), FSqrt(Fin(m.T))), Hundredth)

\* K T exp(-rT) cdf(x)
RhoTerm(m, x) ==
  FMul(FMul(FMul(Fin(m.K), Fin(m.T)), DiscountFactor(m)), NormCdf(x))

\* lines 120-124: rho_val * 0.01
rho_reported(m, d2, ot) ==
  LET rho_val == IF ot = "c" THEN RhoTerm(m, d2) ELSE FNeg(RhoTerm(m, FNeg(d2)))
  IN FMul(rho_val, Hundredth)

\* the library function each entry of the greeks dict calls
LibOf(g) ==
  CASE g = "Delta" -> "delta" [] g = "Gamma" -> "gamma" [] g = "Theta" -> "theta"
    [] g = "Vega" -> "vega" [] g = "Rho" -> "rho"

\* the manual value of each Greek
ManualGreek(g, m, d1, d2, ot) ==
  CASE g = "Delta" -> delta_val(d1, ot)
    [] g = "Gamma" -> gamma_val(m, d1)
    [] g = "Theta" -> theta_reported(m, d1, d2, ot)
    [] g = "Vega" -> vega_reported(m, d1)
    [] g = "Rho" -> rho_reported(m, d2, ot)

\* one try block of calculate_greeks: the entry it stores
GreekEntry(g, m, oracle, d1, d2, ot) ==
  IF LibOf(g) \in oracle THEN NonePair
  ELSE Pair(ManualGreek(g, m, d1, d2, ot), LibValue)

\* calculate_greeks(option_type)
GreeksResult(m, oracle, ot) ==
  LET dd == D1D2(m)
  IN IF dd.raised # ""
     THEN [NoRet EXCEPT !.op = "greeks", !.ot = ot, !.raised = dd.raised]
     ELSE [NoRet EXCEPT !.op = "greeks", !.ot = ot,
             !.greeks = [g \in GreekNames |->
                           GreekEntry(g, m, oracle, dd.d1, dd.d2, ot)],
             !.libCalled = {LibOf(g) : g \in GreekNames}]

\* _calculate_d1_d2() called on its own
D1D2Result(m) ==
  LET dd == D1D2(m)
  IN [NoRet EXCEPT !.op = "d1d2", !.raised = dd.raised, !.d = <<dd.d1, dd.d2>>]

\* a call's outcome is recorded; the first call's outcome is kept
Record(r) ==
  /\ ret' = r
  /\ first' = IF first.op = "none" THEN r ELSE first
  /\ mixed' = (mixed \/ (first.op # "none" /\ (r.op # first.op \/ r.ot # first.ot)))

\* _calculate_d1_d2 writing the variance term sigma^2 / 2 back into
\* self.sigma
_calculate_d1_d2_storing ==
  /\ pc = "constructed"
  /\ Record(D1D2Result(self))
  /\ self' = [self EXCEPT
               !.sigma = FDiv(FMul(Fin(self.sigma), Fin(self.sigma)), Num(2)).v]
  /\ UNCHANGED <<args, pc, lib>>

_calculate_d1_d2 ==
  /\ pc = "constructed"
  /\ Record(D1D2Result(self))
  /\ UNCHANGED <<args, pc, self, lib>>

\* calculate_price discounting the strike in place:
\* self.K = self.K * exp(-r T)
calculate_price_discounting(ot) ==
  /\ pc = "constructed"
  /\ Record(PriceResult(self, lib, ot))
  /\ self' = [self EXCEPT !.K = FMul(Fin(self.K), DiscountFactor(self)).v]
  /\ UNCHANGED <<args, pc, lib>>

calculate_price(ot) ==
  /\ pc = "constructed"
  /\ Record(PriceResult(self, lib, ot))
  /\ UNCHANGED <<args, pc, self, lib>>

calculate_greeks(ot) ==
  /\ pc = "constructed"
  /\ Record(GreeksResult(self, lib, ot))
  /\ UNCHANGED <<args, pc, self, lib>>

Price == \E ot \in OptionTypes : calculate_price(ot)
Greeks == \E ot \in OptionTypes : calculate_greeks(ot)

Next == __init__ \/ _calculate_d1_d2 \/ Price \/ Greeks

Spec == Init /\ [][Next]_vars

\* ------------------------------------------------------------- claims
IsValue(a) == a.k \in {"fin", "inf", "nan"}
Returned(r) == r.raised = ""

\* C1: construction fails with the invalid-parameter error iff T <= 0 or
\* sigma < 0; every other input, S <= 0 and K <= 0 included, is accepted and
\* the instance then holds exactly the five values supplied.
C1_ConstructionContract ==
  [][pc = "new" =>
       /\ pc' \in {"constructed", "rejected"}
       /\ (pc' = "rejected") <=> (args.T <= 0 \/ args.sigma < 0)
       /\ pc' = "rejected" => self' = NoSelf
       /\ pc' = "constructed" => self' = args]_vars

C1_Witness ==
  pc = "constructed" /\ ret.op = "none" /\ self.S <= 0 /\ self.K <= 0 /\ self = args

\* C2: calculate_price never raises past its boundary: whatever the model
\* and the option type, it returns a dict whose price is a value or None,
\* also when the derivation of d1/d2 faults.
C2_PriceNeverRaises ==
  ret.op = "price" =>
    /\ Returned(ret)
    /\ ret.price.Manual = None \/ IsValue(ret.price.Manual)

\* C3: on a model built from degenerate inputs (S <= 0, K <= 0 or
\* sigma = 0) calculate_price and calculate_greeks do not raise, and every
\* price or Greek they report is a finite number or None, never nan or inf.
C3_DegenerateIsAbsent ==
  (/\ ret.op \in {"price", "greeks"}
   /\ (self.S <= 0 \/ self.K <= 0 \/ self.sigma = 0)) =>
    /\ Returned(ret)
    /\ ret.op = "price" => ret.price.Manual.k \in {"none", "fin"}
    /\ ret.op = "greeks" =>
         \A g \in GreekNames : ret.greeks[g].Manual.k \in {"none", "fin"}

\* C4: calculate_greeks always returns the five fields Delta, Gamma, Theta,
\* Vega and Rho, each a value or None; a Greek whose own computation did
\* not fault is computed whatever happened to the others, and no fault
\* aborts the batch.
C4_GreeksNeverAbort ==
  ret.op = "greeks" =>
    /\ Returned(ret)
    /\ DOMAIN ret.greeks = GreekNames
    /\ \A g \in GreekNames :
         /\ ret.greeks[g].Manual = None \/ IsValue(ret.greeks[g].Manual)
         /\ LibOf(g) \notin lib => IsValue(ret.greeks[g].Manual)

\* C5: a failure of the reference library does not remove the manual value:
\* whenever the manual formula itself succeeded (the call returned, and for
\* calculate_price the option type is 'c' or 'p'), Manual is present.
C5_ManualSurvivesLibrary ==
  /\ (ret.op = "price" /\ Returned(ret) /\ ret.ot \in {"c", "p"}) =>
       IsValue(ret.price.Manual)
  /\ (ret.op = "greeks" /\ Returned(ret)) =>
       \A g \in GreekNames : IsValue(ret.greeks[g].Manual)

\* C6: idempotence: after any sequence of calls, a call of the method and
\* option type of the first call has the first call's outcome.
C6_Idempotent ==
  (ret.op = first.op /\ ret.ot = first.ot) => ret = first

C6_Witness ==
  /\ mixed
  /\ ret.op = "price" /\ first.op = "price" /\ ret.ot = "p" /\ first.ot = "p"
  /\ IsFin(ret.price.Manual) /\ ret.price.Manual.v > 0

CallPutSeen ==
  /\ first.op = "price" /\ ret.op = "price"
  /\ {first.ot, ret.ot} = {"c", "p"}
CallOutcome == IF first.ot = "c" THEN first ELSE ret
PutOutcome == IF first.ot = "p" THEN first ELSE ret

\* C8: put-call parity: for valid inputs (S > 0, K > 0, T > 0, sigma >= 0)
\* the Manual call price minus the Manual put price of the same instance is
\* S - K e^(-rT).  Equality is read up to the resolution of the fixed-point
\* representation (3 units of 1/Scale), and only where both Manual prices
\* were reported.
C8_PutCallParity ==
  (/\ CallPutSeen /\ self.S > 0 /\ self.K > 0
   /\ Returned(CallOutcome) /\ Returned(PutOutcome)
   /\ IsValue(CallOutcome.price.Manual) /\ IsValue(PutOutcome.price.Manual)) =>
    LET c == CallOutcome.price.Manual
        p == PutOutcome.price.Manual
        rhs == FSub(Fin(self.S), FMul(Fin(self.K), DiscountFactor(self)))
    IN IsFin(c) /\ IsFin(p) /\ Abs(c.v - p.v - rhs.v) <= 3

\* C9: for valid inputs (S > 0, K > 0, T > 0, sigma >= 0, sigma = 0
\* included) the Manual Delta is within [0, 1] for a call and within
\* [-1, 0] for a put.
C9_DeltaBounded ==
  (/\ ret.op = "greeks" /\ ret.ot \in {"c", "p"} /\ Returned(ret)
   /\ self.S > 0 /\ self.K > 0
   /\ IsValue(ret.greeks["Delta"].Manual)) =>
    LET d == ret.greeks["Delta"].Manual
    IN /\ IsFin(d)
       /\ ret.ot = "c" => (0 <= d.v /\ d.v <= Scale)
       /\ ret.ot = "p" => (-Scale <= d.v /\ d.v <= 0)

\* C10: an option type that is neither 'c' nor 'p' is rejected by
\* calculate_price (both entries None, no exception, the library not
\* called), while calculate_greeks accepts every option type and computes
\* the Manual Delta, Theta and Rho of an option type other than 'c' with the
\* put formulas.
C10_OptionTypeAsymmetry ==
  /\ (ret.op = "price" /\ ret.ot \notin {"c", "p"}) =>
       Returned(ret) /\ ret.price = NonePair /\ ret.libCalled = {}
  /\ (ret.op = "greeks" /\ ret.ot # "c") =>
       /\ Returned(ret)
       /\ \A g \in {"Delta", "Theta", "Rho"} :
            LibOf(g) \notin lib =>
              ret.greeks[g].Manual =
                ManualGreek(g, self, D1D2(self).d1, D1D2(self).d2, "p")
====
